---- MODULE Spec2Model ----
(***************************************************************************)
(* A model of the calculator: the engine of the SDL front end              *)
(* (format_double, calculate_result, handle_button_press) and the add-on   *)
(* features of enhancer.h (CalculatorHistory, backspaceInput, ...).        *)
(*                                                                         *)
(* Strings are sequences of one-character strings, so that length,         *)
(* find('.'), pop_back and += work on characters as they do in the code.   *)
(*                                                                         *)
(* A double is modelled as an exact signed rational (with a signed zero):  *)
(* within the bounds of the model every number comes from a few key        *)
(* presses, far from the range and the 53-bit precision where IEEE-754     *)
(* rounding would show in the 10 significant digits format_double prints.  *)
(* Numerators and denominators are arbitrary-precision naturals (Big),     *)
(* because a display such as "0.3333333333" read back by std::stod has a   *)
(* numerator beyond 32 bits.                                               *)
(***************************************************************************)
EXTENDS Integers, Sequences, FiniteSets, TLC

(***************************************************************************)
(* Bounds of the model.                                                    *)
(***************************************************************************)
\* Tokens applied since the last Clear.
MaxTokens == 4

\* Entries added to the history since its last clear().
MaxAppends == 11

\* The largest operand a scripted session types.
MaxOperand == 5

\* The memory operations of a session.
MaxMemOps == 4

\* The values given to the memory cell are the integers -MaxMemValue..MaxMemValue.
MaxMemValue == 7

(***************************************************************************)
(* Arbitrary-precision naturals: little-endian sequences of decimal        *)
(* digits without high zeros; <<>> is zero.                                *)
(***************************************************************************)
RECURSIVE BigNorm(_)
BigNorm(a) ==
    IF a = <<>> THEN <<>>
    ELSE IF a[Len(a)] = 0 THEN BigNorm(SubSeq(a, 1, Len(a) - 1))
    ELSE a

BigDigit(a, i) == IF i <= Len(a) THEN a[i] ELSE 0

RECURSIVE BigCmpFrom(_, _, _)
BigCmpFrom(a, b, i) ==
    IF i = 0 THEN 0
    ELSE IF a[i] < b[i] THEN -1
    ELSE IF a[i] > b[i] THEN 1
    ELSE BigCmpFrom(a, b, i - 1)

\* -1, 0 or 1 as a < b, a = b or a > b.
BigCmp(a, b) ==
    IF Len(a) < Len(b) THEN -1
    ELSE IF Len(a) > Len(b) THEN 1
    ELSE BigCmpFrom(a, b, Len(a))

RECURSIVE BigAddFrom(_, _, _, _)
BigAddFrom(a, b, i, carry) ==
    IF i > Len(a) /\ i > Len(b)
    THEN IF carry = 0 THEN <<>> ELSE <<carry>>
    ELSE LET s == BigDigit(a, i) + BigDigit(b, i) + carry
         IN  <<s % 10>> \o BigAddFrom(a, b, i + 1, s \div 10)

BigAdd(a, b) == BigAddFrom(a, b, 1, 0)

RECURSIVE BigSubFrom(_, _, _, _)
BigSubFrom(a, b, i, borrow) ==
    IF i > Len(a) THEN <<>>
    ELSE LET s == a[i] - BigDigit(b, i) - borrow
         IN  IF s < 0
             THEN <<s + 10>> \o BigSubFrom(a, b, i + 1, 1)
             ELSE <<s>> \o BigSubFrom(a, b, i + 1, 0)

\* a - b, for a >= b.
BigSub(a, b) == BigNorm(BigSubFrom(a, b, 1, 0))

RECURSIVE BigMulDigitFrom(_, _, _, _)
BigMulDigitFrom(a, k, i, carry) ==
    IF i > Len(a)
    THEN IF carry = 0 THEN <<>> ELSE <<carry>>
    ELSE LET s == a[i] * k + carry
         IN  <<s % 10>> \o BigMulDigitFrom(a, k, i + 1, s \div 10)

BigMulDigit(a, k) == IF k = 0 THEN <<>> ELSE BigMulDigitFrom(a, k, 1, 0)

\* a * 10.
BigTimes10(a) == IF a = <<>> THEN <<>> ELSE <<0>> \o a

RECURSIVE BigMulFrom(_, _, _)
BigMulFrom(a, b, i) ==
    IF i > Len(b) THEN <<>>
    ELSE BigAdd(BigMulDigit(a, b[i]), BigTimes10(BigMulFrom(a, b, i + 1)))

BigMul(a, b) == IF a = <<>> \/ b = <<>> THEN <<>> ELSE BigMulFrom(a, b, 1)

RECURSIVE BigPow10(_)
BigPow10(k) == IF k = 0 THEN <<1>> ELSE <<0>> \o BigPow10(k - 1)

\* The quotient digit of r / d for r < 10 * d, by repeated subtraction.
RECURSIVE BigDivStep(_, _, _)
BigDivStep(r, d, q) ==
    IF BigCmp(r, d) < 0 THEN [q |-> q, r |-> r]
    ELSE BigDivStep(BigSub(r, d), d, q + 1)

\* Long division of the digits n[i], ..., n[1] brought down onto r.
RECURSIVE BigDivFrom(_, _, _, _)
BigDivFrom(n, d, i, r) ==
    IF i = 0 THEN [q |-> <<>>, r |-> r]
    ELSE LET s    == BigDivStep(BigNorm(<<n[i]>> \o r), d, 0)
             rest == BigDivFrom(n, d, i - 1, s.r)
         IN  [q |-> rest.q \o <<s.q>>, r |-> rest.r]

\* [q |-> n div d, r |-> n mod d], for d > 0.
BigDivMod(n, d) ==
    LET x == BigDivFrom(n, d, Len(n), <<>>)
    IN  [q |-> BigNorm(x.q), r |-> x.r]

RECURSIVE BigGcd(_, _)
BigGcd(a, b) == IF b = <<>> THEN a ELSE BigGcd(b, BigDivMod(a, b).r)

(***************************************************************************)
(* Characters and strings.                                                 *)
(***************************************************************************)
DigitChars == <<"0", "1", "2", "3", "4", "5", "6", "7", "8", "9">>

IsDigit(c) == \E k \in 1..10 : DigitChars[k] = c

DigitVal(c) == (CHOOSE k \in 1..10 : DigitChars[k] = c) - 1

DigitChar(k) == DigitChars[k + 1]

\* std::string::find(c) != npos
Contains(str, c) == \E i \in 1..Len(str) : str[i] = c

\* The digits of a Big, most significant first (none for zero).
BigDigitsBE(a) == [i \in 1..Len(a) |-> a[Len(a) + 1 - i]]

\* The Big written by decimal digits given most significant first.
BigOfDigitsBE(ds) == BigNorm([i \in 1..Len(ds) |-> ds[Len(ds) + 1 - i]])

DigitsToStr(ds) == [i \in 1..Len(ds) |-> DigitChar(ds[i])]

BigToStr(a) == IF a = <<>> THEN <<"0">> ELSE DigitsToStr(BigDigitsBE(a))

RECURSIVE NatToBig(_)
NatToBig(k) == IF k = 0 THEN <<>> ELSE <<k % 10>> \o NatToBig(k \div 10)

(***************************************************************************)
(* double: [neg, n, d] is (-1)^neg * n / d in lowest terms; zero keeps its *)
(* sign, as in IEEE-754.                                                   *)
(***************************************************************************)
Reduced(neg, n, d, g) ==
    IF g = <<1>> THEN [neg |-> neg, n |-> n, d |-> d]
    ELSE [neg |-> neg, n |-> BigDivMod(n, g).q, d |-> BigDivMod(d, g).q]

Dbl(neg, n, d) ==
    IF n = <<>> THEN [neg |-> neg, n |-> <<>>, d |-> <<1>>]
    ELSE Reduced(neg, n, d, BigGcd(n, d))

\* The literal 0.0 (and 0).
Zero == [neg |-> FALSE, n |-> <<>>, d |-> <<1>>]

\* A natural number as a double.
DblOfNat(k) == [neg |-> FALSE, n |-> NatToBig(k), d |-> <<1>>]

\* x != 0 (both zeros compare equal to 0).
DblNonZero(x) == x.n # <<>>

DblNeg(x) == [x EXCEPT !.neg = ~x.neg]

\* The sum of (-1)^xneg * xn / d and (-1)^yneg * yn / d.
AddScaled(xneg, xn, yneg, yn, d, c) ==
    IF xneg = yneg THEN Dbl(xneg, BigAdd(xn, yn), d)
    ELSE IF c = 0 THEN Zero
    ELSE IF c > 0 THEN Dbl(xneg, BigSub(xn, yn), d)
    ELSE Dbl(yneg, BigSub(yn, xn), d)

AddOver(xneg, xn, yneg, yn, d) == AddScaled(xneg, xn, yneg, yn, d, BigCmp(xn, yn))

\* a + b: a zero sum of opposite signs is +0, (-0) + (-0) is -0.
DblAdd(x, y) ==
    AddOver(x.neg, BigMul(x.n, y.d), y.neg, BigMul(y.n, x.d), BigMul(x.d, y.d))

\* a - b
DblSub(x, y) == DblAdd(x, DblNeg(y))

\* a * b
DblMul(x, y) == Dbl(x.neg # y.neg, BigMul(x.n, y.n), BigMul(x.d, y.d))

\* a / b, for b != 0.
DblDiv(x, y) == Dbl(x.neg # y.neg, BigMul(x.n, y.d), BigMul(x.d, y.n))

(***************************************************************************)
(* std::stod: the longest prefix that is a decimal floating-point numeral  *)
(* (sign, digits with at most one point, exponent); std::invalid_argument  *)
(* when the string starts with no numeral.  The strings of the model never *)
(* start with white space, "inf", "nan" or "0x".                           *)
(***************************************************************************)
CharAt(str, i) == IF i <= Len(str) THEN str[i] ELSE ""

\* The first index from i on that holds no digit.
RECURSIVE SkipDigits(_, _)
SkipDigits(str, i) ==
    IF i <= Len(str) /\ IsDigit(str[i]) THEN SkipDigits(str, i + 1) ELSE i

DigitsOf(str, i, j) == [k \in 1..(j - i) |-> DigitVal(str[i + k - 1])]

\* The value of a short run of digits, most significant first.
RECURSIVE SmallNat(_)
SmallNat(ds) ==
    IF ds = <<>> THEN 0 ELSE SmallNat(SubSeq(ds, 1, Len(ds) - 1)) * 10 + ds[Len(ds)]

\* Where the numeral of str ends: the integer digits are [i0, i1), the
\* decimals [i1 + 1, i2) when a point is at i1, the exponent digits [e0, e1)
\* when an exponent mark is at i2.
NumeralEnds(str) ==
    LET i0 == IF CharAt(str, 1) \in {"-", "+"} THEN 2 ELSE 1
        i1 == SkipDigits(str, i0)
        i2 == IF CharAt(str, i1) = "." THEN SkipDigits(str, i1 + 1) ELSE i1
        e0 == IF CharAt(str, i2 + 1) \in {"-", "+"} THEN i2 + 2 ELSE i2 + 1
    IN  [i0 |-> i0, i1 |-> i1, i2 |-> i2, e0 |-> e0, e1 |-> SkipDigits(str, e0)]

\* (-1)^neg * mant * 10^(ex - scale)
Scaled(neg, mant, scale, ex) ==
    IF ex >= 0
    THEN Dbl(neg, BigMul(mant, BigPow10(ex)), BigPow10(scale))
    ELSE Dbl(neg, mant, BigPow10(scale - ex))

\* The numeral of str with its parts at p.
NumeralAt(str, p) ==
    LET ints  == DigitsOf(str, p.i0, p.i1)
        fracs == IF p.i2 > p.i1 THEN DigitsOf(str, p.i1 + 1, p.i2) ELSE <<>>
        hasE  == CharAt(str, p.i2) \in {"e", "E"} /\ p.e1 > p.e0
        ex    == IF hasE THEN SmallNat(DigitsOf(str, p.e0, p.e1)) ELSE 0
    IN  IF ints = <<>> /\ fracs = <<>>
        THEN [ok |-> FALSE, val |-> Zero]
        ELSE [ok |-> TRUE,
              val |-> Scaled(CharAt(str, 1) = "-", BigOfDigitsBE(ints \o fracs),
                             Len(fracs),
                             IF CharAt(str, p.i2 + 1) = "-" THEN -ex ELSE ex)]

\* [ok |-> a numeral was read, val |-> its value]
stod(str) == NumeralAt(str, NumeralEnds(str))

\* The value read, or 0.0 in place of the exception.
ValueOrZero(r) == IF r.ok THEN r.val ELSE Zero

\* try { x = std::stod(str); } catch (...) { x = 0.0; }
stodOrZero(str) == ValueOrZero(stod(str))

(***************************************************************************)
(* format_double.                                                          *)
(***************************************************************************)
\* ss << std::setprecision(10)
FormatPrecision == 10

\* The bound of the test for an integer, 1e-9, as a count of decimals.
IntegerDecimals == 9

\* The first k decimals of r / d (r < d) and the remainder left after them.
RECURSIVE FracDigits(_, _, _)
FracDigits(r, d, k) ==
    IF k = 0 THEN [ds |-> <<>>, r |-> r]
    ELSE LET s    == BigDivStep(BigTimes10(r), d, 0)
             rest == FracDigits(s.r, d, k - 1)
         IN  [ds |-> <<s.q>> \o rest.ds, r |-> rest.r]

\* The number of zero decimals of r / d before its first non-zero one (r > 0).
RECURSIVE LeadingZeros(_, _)
LeadingZeros(r, d) ==
    LET s == BigDivStep(BigTimes10(r), d, 0)
    IN  IF s.q = 0 THEN 1 + LeadingZeros(s.r, d) ELSE 0

RECURSIVE StripZeros(_)
StripZeros(ds) ==
    IF ds # <<>> /\ ds[Len(ds)] = 0 THEN StripZeros(SubSeq(ds, 1, Len(ds) - 1)) ELSE ds

\* Digits given most significant first, plus one; a carry out lengthens them.
RECURSIVE IncDigits(_)
IncDigits(ds) ==
    IF ds = <<>> THEN <<1>>
    ELSE IF ds[Len(ds)] < 9
         THEN SubSeq(ds, 1, Len(ds) - 1) \o <<ds[Len(ds)] + 1>>
         ELSE IncDigits(SubSeq(ds, 1, Len(ds) - 1)) \o <<0>>

Zeros(k) == [i \in 1..k |-> 0]

\* The integer part q and the first decimals f of |val|: whether |val| is
\* within 1e-9 of an integer, and that integer.
NearOf(q, f) ==
    LET lo == \A i \in 1..IntegerDecimals : f.ds[i] = 0
        hi == (\A i \in 1..IntegerDecimals : f.ds[i] = 9) /\ f.r # <<>>
    IN  [near |-> lo \/ hi, int |-> IF hi THEN BigAdd(q, <<1>>) ELSE q]

NearDivided(dm, d) == NearOf(dm.q, FracDigits(dm.r, d, IntegerDecimals))

\* std::abs(val - std::round(val)) < 1e-9, and the integer nearest to |val|.
NearInteger(val) == NearDivided(BigDivMod(val.n, val.d), val.d)

\* ss << std::fixed << std::setprecision(0) << val, for |val| near int.
FormatFixed0(neg, int) == (IF neg THEN <<"-">> ELSE <<>>) \o BigToStr(int)

\* The digits all, of which the first is the digit of 10^x, rounded to p
\* digits (to nearest, ties to even); rest: digits below all are not all zero.
RoundDigits(all, x, p, rest) ==
    LET m      == SubSeq(all, 1, p)
        sticky == rest \/ \E i \in (p + 2)..Len(all) : all[i] # 0
        up     == all[p + 1] > 5 \/ (all[p + 1] = 5 /\ (sticky \/ m[p] % 2 = 1))
        m1     == IF up THEN IncDigits(m) ELSE m
    IN  IF Len(m1) > p THEN [m |-> SubSeq(m1, 1, p), x |-> x + 1]
        ELSE [m |-> m1, x |-> x]

\* The integer digits ints of |val|, z zero decimals after the point when
\* ints is empty, and the decimals f, as many as rounding to p digits reads.
RoundParts(ints, z, f, p) ==
    RoundDigits(SubSeq(ints \o f.ds, z + 1, Len(ints) + Len(f.ds)),
                IF ints = <<>> THEN -(z + 1) ELSE Len(ints) - 1, p, f.r # <<>>)

RoundFrom(ints, z, r, d, p) ==
    RoundParts(ints, z,
               FracDigits(r, d, IF Len(ints) > p THEN 0 ELSE z + p + 1 - Len(ints)),
               p)

RoundDivided(dm, d, p) ==
    RoundFrom(BigDigitsBE(dm.q),
              IF dm.q = <<>> THEN LeadingZeros(dm.r, d) ELSE 0, dm.r, d, p)

\* |val| rounded to p significant digits, for val # 0:
\* [m |-> the p digits, x |-> the decimal exponent of the first one].
RoundSignificant(val, p) == RoundDivided(BigDivMod(val.n, val.d), val.d, p)

\* The exponent of the scientific style: a sign and at least two digits.
ExponentStr(x) ==
    <<"e", IF x < 0 THEN "-" ELSE "+">>
    \o (IF x > -10 /\ x < 10 THEN <<"0">> ELSE <<>>)
    \o BigToStr(NatToBig(IF x < 0 THEN -x ELSE x))

\* The digits after the point, which is written only when one follows.
PointStr(ds) == IF ds = <<>> THEN <<>> ELSE <<".">> \o DigitsToStr(ds)

\* The %g style of the rounded digits r: scientific when the exponent is
\* below -4 or at least the precision, fixed otherwise; trailing zeros are
\* not written.
FormatRounded(neg, r, p) ==
    (IF neg THEN <<"-">> ELSE <<>>)
    \o (IF r.x < -4 \/ r.x >= p
        THEN <<DigitChar(r.m[1])>> \o PointStr(StripZeros(SubSeq(r.m, 2, p)))
             \o ExponentStr(r.x)
        ELSE IF r.x < 0
        THEN <<"0">> \o PointStr(Zeros(-r.x - 1) \o StripZeros(r.m))
        ELSE DigitsToStr(SubSeq(r.m, 1, r.x + 1))
             \o PointStr(StripZeros(SubSeq(r.m, r.x + 2, p))))

\* ss << val with precision 10 and no format flag.
FormatGeneral(val) ==
    FormatRounded(val.neg, RoundSignificant(val, FormatPrecision), FormatPrecision)

\* The two branches of format_double, by the test for an integer.
FormatBy(val, t) ==
    IF t.near THEN FormatFixed0(val.neg, t.int) ELSE FormatGeneral(val)

format_double(val) == FormatBy(val, NearInteger(val))

(***************************************************************************)
(* The engine: the globals of the front end and the handlers of a button   *)
(* press.  A handler is an operator from the engine state s, a record of   *)
(* the globals, to the engine state it leaves.                             *)
(***************************************************************************)
\* char currentOp = 0: no operator is pending.
NoOp == ""

ErrorStr == <<"E", "r", "r", "o", "r">>

DivByZeroStr ==
    <<"E", "r", "r", "o", "r", ":", " ", "D", "i", "v", " ", "b", "y", " ", "0">>

\* The labels of layout_buttons, by type.
NumberKeys == {"0", "1", "2", "3", "4", "5", "6", "7", "8", "9", "."}

OperatorKeys == {"+", "-", "*", "/"}

ButtonType(label) ==
    IF label \in NumberKeys THEN "number"
    ELSE IF label \in OperatorKeys THEN "operator"
    ELSE IF label = "C" THEN "clear"
    ELSE IF label = "=" THEN "equals"
    ELSE "none"

\* The switch of calculate_result, for b != 0 when op is '/'.
Arith(op, a, b) ==
    CASE op = "+" -> DblAdd(a, b)
      [] op = "-" -> DblSub(a, b)
      [] op = "*" -> DblMul(a, b)
      [] op = "/" -> DblDiv(a, b)
      [] OTHER    -> Zero

\* case '/': the branch that reports the error.
DivisionError(op, b) == op = "/" /\ ~DblNonZero(b)

\* Fault injection: the success branch without storedValue = result.
ShowResultKeepsStored(s, result) ==
    [s EXCEPT !.input_str = format_double(result),
              !.currentOp = NoOp, !.resetInput = TRUE]

\* if (!error): the result is displayed and stored.
ShowResult(s, result) ==
    [s EXCEPT !.input_str = format_double(result), !.storedValue = result,
              !.currentOp = NoOp, !.resetInput = TRUE]

\* Fault injection: the error branch without storedValue = 0.0.
ShowErrorKeepsStored(s) ==
    [s EXCEPT !.input_str = ErrorStr, !.currentOp = NoOp, !.resetInput = TRUE]

\* Fault injection: the error branch leaves resetInput as it is.
ShowErrorKeepsEntry(s) ==
    [s EXCEPT !.input_str = ErrorStr, !.storedValue = Zero, !.currentOp = NoOp]

\* The error branch: input_str = "Error", storedValue = 0.0.
ShowError(s) ==
    [s EXCEPT !.input_str = ErrorStr, !.storedValue = Zero,
              !.currentOp = NoOp, !.resetInput = TRUE]

\* calculate_result from the switch on, with the operands a and b.
Calculate(s, a, b) ==
    IF DivisionError(s.currentOp, b) THEN ShowError(s)
    ELSE ShowResult(s, Arith(s.currentOp, a, b))

\* Fault injection: calculate_result without the return on currentOp == 0.
calculate_resultAlways(s) == Calculate(s, s.storedValue, stodOrZero(s.input_str))

calculate_result(s) ==
    IF s.currentOp = NoOp THEN s
    ELSE Calculate(s, s.storedValue, stodOrZero(s.input_str))

\* Fault injection: a decimal point is ignored only right after another.
IgnoresDecimalAtEnd(str, c) == c = "." /\ str # <<>> /\ str[Len(str)] = "."

\* Fault injection: a second decimal point is not ignored.
IgnoresDecimalNever(str, c) == FALSE

\* btn.value == '.' && input_str.find('.') != npos: the press is ignored.
IgnoresDecimal(str, c) == c = "." /\ Contains(str, ".")

\* Fault injection: a digit is appended to the initial zero.
ReplacesZeroNever(str, c) == FALSE

\* input_str == "0" && btn.value != '.': the digit replaces the zero.
ReplacesZero(str, c) == str = <<"0">> /\ c # "."

\* Fault injection: a number key that starts an entry drops the pending
\* operator.
press_numberDropsPending(s, c) ==
    IF s.resetInput
    THEN [s EXCEPT !.input_str = IF c = "." THEN <<"0", ".">> ELSE <<c>>,
                   !.resetInput = FALSE, !.currentOp = NoOp]
    ELSE IF IgnoresDecimal(s.input_str, c) THEN s
    ELSE IF ReplacesZero(s.input_str, c) THEN [s EXCEPT !.input_str = <<c>>]
    ELSE [s EXCEPT !.input_str = Append(@, c)]

\* btn.type == "number"
press_number(s, c) ==
    IF s.resetInput
    THEN [s EXCEPT !.input_str = IF c = "." THEN <<"0", ".">> ELSE <<c>>,
                   !.resetInput = FALSE]
    ELSE IF IgnoresDecimal(s.input_str, c) THEN s
    ELSE IF ReplacesZero(s.input_str, c) THEN [s EXCEPT !.input_str = <<c>>]
    ELSE [s EXCEPT !.input_str = Append(@, c)]

\* The result r of std::stod stored, when there is one.
StoreRead(s, r) ==
    IF r.ok THEN [s EXCEPT !.storedValue = r.val] ELSE [s EXCEPT !.aborted = TRUE]

\* storedValue = std::stod(input_str) outside any try block: an exception
\* of std::stod ends the process.
StoreDisplayed(s) == StoreRead(s, stod(s.input_str))

\* Fault injection: the test of resetInput is left out.
TakesOperandAlways(s) == TRUE

\* if (!resetInput): the operand on the display is taken in first.
TakesOperand(s) == ~s.resetInput

\* The body of if (!resetInput).
TakeOperand(s) ==
    IF s.currentOp # NoOp
    THEN StoreDisplayed(calculate_result(s))
    ELSE [s EXCEPT !.storedValue = stodOrZero(s.input_str)]

\* Fault injection: the operator branch without resetInput = true.
SetPendingKeepsEntry(s, op) ==
    IF s.aborted THEN s ELSE [s EXCEPT !.currentOp = op]

\* currentOp = btn.value; resetInput = true, when the process still runs.
SetPending(s, op) ==
    IF s.aborted THEN s ELSE [s EXCEPT !.currentOp = op, !.resetInput = TRUE]

\* btn.type == "operator"
press_operator(s, op) ==
    SetPending(IF TakesOperand(s) THEN TakeOperand(s) ELSE s, op)

\* Fault injection: the clear branch without storedValue = 0.0.
press_clearKeepsStored(s) ==
    [s EXCEPT !.input_str = <<"0">>, !.currentOp = NoOp, !.resetInput = TRUE]

\* btn.type == "clear"
press_clear(s) ==
    [s EXCEPT !.input_str = <<"0">>, !.storedValue = Zero,
              !.currentOp = NoOp, !.resetInput = TRUE]

handle_button_press(s, label) ==
    CASE ButtonType(label) = "number"   -> press_number(s, label)
      [] ButtonType(label) = "operator" -> press_operator(s, label)
      [] ButtonType(label) = "clear"    -> press_clear(s)
      [] ButtonType(label) = "equals"   -> calculate_result(s)
      [] OTHER                          -> s

(***************************************************************************)
(* The add-ons of enhancer.h.                                              *)
(***************************************************************************)
backspaceInput(display) ==
    IF Len(display) > 1 THEN SubSeq(display, 1, Len(display) - 1) ELSE <<"0">>

\* const size_t maxHistory = 10
maxHistory == 10

\* Fault injection: addEntry without the pop_back.
addEntryUnbounded(h, entry) == <<entry>> \o h

\* Fault injection: addEntry with pop_front in place of pop_back.
addEntryDropsFront(h, entry) ==
    IF Len(h) + 1 > maxHistory THEN h ELSE <<entry>> \o h

\* CalculatorHistory::addEntry: the deque after push_front and the pop_back.
addEntry(h, entry) ==
    LET pushed == <<entry>> \o h
    IN  IF Len(pushed) > maxHistory
        THEN SubSeq(pushed, 1, Len(pushed) - 1)
        ELSE pushed

\* CalculatorHistory::clear
clearHistory(h) == <<>>

\* An integer as a double.
DblOfInt(k) == IF k < 0 THEN DblNeg(DblOfNat(-k)) ELSE DblOfNat(k)

\* CalculatorMemory: double memory = 0.0, and its methods, each from the
\* value m of memory to the value it leaves.
memoryInit == Zero

memoryClear(m) == Zero

memoryAdd(m, value) == DblAdd(m, value)

memorySubtract(m, value) == DblSub(m, value)

\* Fault injection: store() accumulates (memory += value).
memoryStoreAdds(m, value) == DblAdd(m, value)

memoryStore(m, value) == value

recall(m) == m

\* Fault injection: hasMemory() tests memory > 0.0.
hasMemoryPositive(m) == DblNonZero(m) /\ ~m.neg

hasMemory(m) == DblNonZero(m)

\* std::to_string(double) writes as "%f" does: six decimals.
ToStringDecimals == 6

\* The quotient dm of n by d rounded to the nearest integer, ties to even.
RoundedQuotient(dm, d, twice) ==
    IF BigCmp(twice, d) > 0 \/ (BigCmp(twice, d) = 0 /\ BigDigit(dm.q, 1) % 2 = 1)
    THEN BigAdd(dm.q, <<1>>)
    ELSE dm.q

RoundedDivided(dm, d) == RoundedQuotient(dm, d, BigAdd(dm.r, dm.r))

\* The digits ds of |val| * 10^6, written with the point before the last six.
FixedStr(neg, ds) ==
    (IF neg THEN <<"-">> ELSE <<>>)
    \o DigitsToStr(SubSeq(ds, 1, Len(ds) - ToStringDecimals))
    \o <<".">>
    \o DigitsToStr(SubSeq(ds, Len(ds) - ToStringDecimals + 1, Len(ds)))

\* At least one digit before the point.
PadDigits(ds) ==
    IF Len(ds) <= ToStringDecimals
    THEN Zeros(ToStringDecimals + 1 - Len(ds)) \o ds
    ELSE ds

\* std::to_string(double)
to_string(val) ==
    FixedStr(val.neg,
             PadDigits(BigDigitsBE(RoundedDivided(
                 BigDivMod(BigMul(val.n, BigPow10(ToStringDecimals)), val.d),
                 val.d))))

\* safeCalculate; the operands of the model are finite and so is every
\* result, which leaves the isnan/isinf branch out of reach.
safeCalculate(a, b, op) ==
    IF op \notin OperatorKeys THEN ErrorStr
    ELSE IF op = "/" /\ ~DblNonZero(b) THEN DivByZeroStr
    ELSE to_string(Arith(op, a, b))

\* The character KeyboardHandler::getKeyChar gives the Backspace key.
BackspaceKey == "B"

\* The Backspace token: backspaceInput edits the display buffer; the rest of
\* the engine state is left alone.
press_backspace(s) == [s EXCEPT !.input_str = backspaceInput(@)]

\* A token applied to the engine: Backspace edits the display, every other
\* token is the press of its button.
apply(s, tok) ==
    IF tok = BackspaceKey THEN press_backspace(s) ELSE handle_button_press(s, tok)

(***************************************************************************)
(* State.                                                                  *)
(***************************************************************************)
VARIABLES
    input_str,     \* std::string input_str
    storedValue,   \* double storedValue
    currentOp,     \* char currentOp
    resetInput,    \* bool resetInput
    aborted,       \* an uncaught exception has ended the process
    trace,         \* history variable: the tokens applied since the last Clear
    cleared,       \* history variable: the last token applied was Clear
    history,       \* CalculatorHistory::history, front first
    appended,      \* history variable: the entries added since the last clear()
    script,        \* a scripted session: its tokens and what they were built from
    pos,           \* the number of tokens of the script applied so far
    memory,        \* CalculatorMemory::memory
    stored,        \* history variable: the value of the last store(), 0 if none
    added,         \* history variable: the sum of the values added since
    subtracted,    \* history variable: the sum of the values subtracted since
    memOps         \* history variable: the number of memory operations so far

engineVars ==
    <<input_str, storedValue, currentOp, resetInput, aborted, trace, cleared>>

historyVars == <<history, appended>>

scriptVars == <<script, pos>>

memoryVars == <<memory, stored, added, subtracted, memOps>>

vars == <<input_str, storedValue, currentOp, resetInput, aborted, trace,
          cleared, history, appended, script, pos,
          memory, stored, added, subtracted, memOps>>

\* The globals as a record.
Engine ==
    [input_str |-> input_str, storedValue |-> storedValue,
     currentOp |-> currentOp, resetInput |-> resetInput, aborted |-> aborted]

\* The globals as the handlers leave them.
SetEngine(s) ==
    /\ input_str' = s.input_str
    /\ storedValue' = s.storedValue
    /\ currentOp' = s.currentOp
    /\ resetInput' = s.resetInput
    /\ aborted' = s.aborted

\* std::string input_str = "0"; double storedValue = 0.0; char currentOp = 0;
\* bool resetInput = true
EngineInit ==
    /\ input_str = <<"0">>
    /\ storedValue = Zero
    /\ currentOp = NoOp
    /\ resetInput = TRUE
    /\ aborted = FALSE
    /\ trace = <<>>
    /\ cleared = FALSE

HistoryInit ==
    /\ history = <<>>
    /\ appended = <<>>

\* No script: the session is interactive.
NoScript ==
    [kind |-> "none", toks |-> <<>>, a |-> 0, op1 |-> NoOp, b |-> 0,
     op2 |-> NoOp, c |-> 0, d |-> 0]

MemoryInit ==
    /\ memory = memoryInit
    /\ stored = 0
    /\ added = 0
    /\ subtracted = 0
    /\ memOps = 0

Init ==
    /\ EngineInit
    /\ HistoryInit
    /\ MemoryInit
    /\ script = NoScript
    /\ pos = 0

(***************************************************************************)
(* The interactive session: any token at any time, while the process runs. *)
(***************************************************************************)
\* The token tok is applied to the engine.
Apply(tok) ==
    /\ ~aborted
    /\ SetEngine(apply(Engine, tok))
    /\ trace' = IF tok = "C" THEN <<>> ELSE Append(trace, tok)
    /\ cleared' = (tok = "C")

PressNumber(c) ==
    /\ Len(trace) < MaxTokens
    /\ Apply(c)
    /\ UNCHANGED <<historyVars, scriptVars, memoryVars>>

PressOperator(op) ==
    /\ Len(trace) < MaxTokens
    /\ Apply(op)
    /\ UNCHANGED <<historyVars, scriptVars, memoryVars>>

PressEquals ==
    /\ Len(trace) < MaxTokens
    /\ Apply("=")
    /\ UNCHANGED <<historyVars, scriptVars, memoryVars>>

PressClear ==
    /\ Apply("C")
    /\ UNCHANGED <<historyVars, scriptVars, memoryVars>>

PressBackspace ==
    /\ Len(trace) < MaxTokens
    /\ Apply(BackspaceKey)
    /\ UNCHANGED <<historyVars, scriptVars, memoryVars>>

Next ==
    \/ \E c \in NumberKeys : PressNumber(c)
    \/ \E op \in OperatorKeys : PressOperator(op)
    \/ PressEquals
    \/ PressClear
    \/ PressBackspace

Spec == Init /\ [][Next]_vars

(***************************************************************************)
(* The history log on its own: entries are added and the log is cleared.   *)
(***************************************************************************)
\* The entries a session adds.
HistoryEntries ==
    { [expression |-> "2 + 3", result |-> "5"],
      [expression |-> "5 * 4", result |-> "20"] }

AddEntry(entry) ==
    /\ Len(appended) < MaxAppends
    /\ history' = addEntry(history, entry)
    /\ appended' = Append(appended, entry)
    /\ UNCHANGED <<engineVars, scriptVars, memoryVars>>

ClearHistory ==
    /\ history' = clearHistory(history)
    /\ appended' = <<>>
    /\ UNCHANGED <<engineVars, scriptVars, memoryVars>>

NextHistory ==
    \/ \E entry \in HistoryEntries : AddEntry(entry)
    \/ ClearHistory

SpecHistory == Init /\ [][NextHistory]_vars

(***************************************************************************)
(* Scripted sessions: the tokens of a script are applied in order.         *)
(***************************************************************************)
Operands == 0..MaxOperand

\* The digits that type the natural number k.
Typed(k) == BigToStr(NatToBig(k))

\* Clear, a, op1, b, op2, c, Equals
ChainScript(a, op1, b, op2, c) ==
    [kind |-> "chain",
     toks |-> <<"C">> \o Typed(a) \o <<op1>> \o Typed(b) \o <<op2>> \o Typed(c)
              \o <<"=">>,
     a |-> a, op1 |-> op1, b |-> b, op2 |-> op2, c |-> c, d |-> 0]

\* Clear, a, '/', 0, Equals, Clear, 1
DivZeroScript(a) ==
    [kind |-> "divzero",
     toks |-> <<"C">> \o Typed(a) \o <<"/", "0", "=", "C", "1">>,
     a |-> a, op1 |-> "/", b |-> 0, op2 |-> NoOp, c |-> 0, d |-> 0]

\* Clear, a, op, b, Equals
BinaryScript(a, op, b) ==
    [kind |-> "binary",
     toks |-> <<"C">> \o Typed(a) \o <<op>> \o Typed(b) \o <<"=">>,
     a |-> a, op1 |-> op, b |-> b, op2 |-> NoOp, c |-> 0, d |-> 0]

\* Clear, a, op1, b, Equals, op2, c, Equals
CarryScript(a, op1, b, op2, c) ==
    [kind |-> "carry",
     toks |-> <<"C">> \o Typed(a) \o <<op1>> \o Typed(b) \o <<"=", op2>>
              \o Typed(c) \o <<"=">>,
     a |-> a, op1 |-> op1, b |-> b, op2 |-> op2, c |-> c, d |-> 0]

\* Clear, a, op1, b, Equals, d, op2, c, Equals
RetypeScript(a, op1, b, d, op2, c) ==
    [kind |-> "retype",
     toks |-> <<"C">> \o Typed(a) \o <<op1>> \o Typed(b) \o <<"=">>
              \o Typed(d) \o <<op2>> \o Typed(c) \o <<"=">>,
     a |-> a, op1 |-> op1, b |-> b, op2 |-> op2, c |-> c, d |-> d]

Scripts ==
    { ChainScript(a, op1, b, op2, c) :
        a \in Operands, op1 \in OperatorKeys, b \in Operands,
        op2 \in OperatorKeys, c \in Operands }
    \cup { DivZeroScript(a) : a \in Operands }
    \cup { BinaryScript(a, op, b) :
              a \in Operands, op \in OperatorKeys, b \in Operands }
    \cup { CarryScript(a, op1, b, op2, c) :
              a \in Operands, op1 \in OperatorKeys, b \in Operands,
              op2 \in OperatorKeys, c \in Operands }
    \cup { RetypeScript(a, op1, b, d, op2, c) :
              a \in Operands, op1 \in OperatorKeys, b \in Operands,
              d \in Operands, op2 \in OperatorKeys, c \in Operands }

InitScript ==
    /\ EngineInit
    /\ HistoryInit
    /\ MemoryInit
    /\ script \in Scripts
    /\ pos = 0

RunToken ==
    /\ pos < Len(script.toks)
    /\ Apply(script.toks[pos + 1])
    /\ pos' = pos + 1
    /\ UNCHANGED <<historyVars, script, memoryVars>>

SpecScript == InitScript /\ [][RunToken]_vars

(***************************************************************************)
(* The interactive session of a calculator whose history log and memory    *)
(* cell are in use: one entry is in the log and a value is in the cell.    *)
(***************************************************************************)
InitSession ==
    /\ EngineInit
    /\ history = addEntry(<<>>, [expression |-> "2 + 3", result |-> "5"])
    /\ appended = <<[expression |-> "2 + 3", result |-> "5"]>>
    /\ memory = memoryStore(memoryInit, DblOfInt(MaxMemValue))
    /\ stored = MaxMemValue
    /\ added = 0
    /\ subtracted = 0
    /\ memOps = 1
    /\ script = NoScript
    /\ pos = 0

SpecSession == InitSession /\ [][Next]_vars

(***************************************************************************)
(* The memory cell on its own: values are stored, added, subtracted and    *)
(* the cell is cleared.                                                    *)
(***************************************************************************)
MemValues == (0 - MaxMemValue)..MaxMemValue

MemoryStore(v) ==
    /\ memOps < MaxMemOps
    /\ memory' = memoryStore(memory, DblOfInt(v))
    /\ stored' = v
    /\ added' = 0
    /\ subtracted' = 0
    /\ memOps' = memOps + 1
    /\ UNCHANGED <<engineVars, historyVars, scriptVars>>

MemoryAdd(v) ==
    /\ memOps < MaxMemOps
    /\ memory' = memoryAdd(memory, DblOfInt(v))
    /\ added' = added + v
    /\ memOps' = memOps + 1
    /\ UNCHANGED <<stored, subtracted, engineVars, historyVars, scriptVars>>

MemorySubtract(v) ==
    /\ memOps < MaxMemOps
    /\ memory' = memorySubtract(memory, DblOfInt(v))
    /\ subtracted' = subtracted + v
    /\ memOps' = memOps + 1
    /\ UNCHANGED <<stored, added, engineVars, historyVars, scriptVars>>

MemoryClear ==
    /\ memOps < MaxMemOps
    /\ memory' = memoryClear(memory)
    /\ stored' = 0
    /\ added' = 0
    /\ subtracted' = 0
    /\ memOps' = memOps + 1
    /\ UNCHANGED <<engineVars, historyVars, scriptVars>>

NextMemory ==
    \/ \E v \in MemValues : MemoryStore(v)
    \/ \E v \in MemValues : MemoryAdd(v)
    \/ \E v \in MemValues : MemorySubtract(v)
    \/ MemoryClear

SpecMemory == Init /\ [][NextMemory]_vars

(***************************************************************************)
(* Properties.                                                             *)
(***************************************************************************)
\* The step applies the token tok (Clear, which empties the trace, apart).
Applied(tok) == trace' = Append(trace, tok)

IsSentinel(str) == str \in {ErrorStr, DivByZeroStr}

engine == <<input_str, storedValue, currentOp, resetInput, aborted>>

\* C1: applying any token in any reachable engine state completes normally:
\* no token sequence ends the session with an uncaught exception.
C1_NoTokenAborts == ~aborted

\* C2: Clear, the digits of a, '/', 0, Equals leaves the display equal to
\* "Error: Div by 0", and a following Clear, Digit(1) leaves the display "1".
C2_DivByZeroSentinel ==
    script.kind = "divzero" =>
        /\ pos = Len(script.toks) - 2 => input_str = DivByZeroStr
        /\ pos = Len(script.toks) => input_str = <<"1">>

\* The number of tokens of a chain script up to and including op2.
UpToOp2(sc) == 1 + Len(Typed(sc.a)) + 1 + Len(Typed(sc.b)) + 1

\* a op1 b of a chain script.
FirstResult(sc) == Arith(sc.op1, DblOfNat(sc.a), DblOfNat(sc.b))

\* C3: evaluation is left to right with one pending operator: when op2
\* arrives after a op1 b, the result of a op1 b becomes the display and the
\* stored left operand and op2 becomes pending; and a op1 b op2 c = displays
\* (a op1 b) op2 c.  (Stated where both operations have a numeric result.)
C3_LeftToRight ==
    (script.kind = "chain" /\ ~DivisionError(script.op1, DblOfNat(script.b))) =>
        /\ pos = UpToOp2(script) =>
              /\ input_str = format_double(FirstResult(script))
              /\ storedValue = FirstResult(script)
              /\ currentOp = script.op2
        /\ (pos = Len(script.toks)
            /\ ~DivisionError(script.op2, DblOfNat(script.c))) =>
              input_str = format_double(Arith(script.op2, FirstResult(script),
                                              DblOfNat(script.c)))

AllDigits(toks) == \A i \in 1..Len(toks) : IsDigit(toks[i])

\* The digit labels with leading zeros suppressed; only zeros give "0".
RECURSIVE SuppressZeros(_)
SuppressZeros(ds) ==
    IF Len(ds) > 1 /\ ds[1] = "0" THEN SuppressZeros(Tail(ds)) ELSE ds

\* C4: after any sequence of Digit tokens applied right after Clear, the
\* display is the concatenation of the digit labels with leading zeros
\* suppressed.
C4_DigitsConcatenate ==
    (trace # <<>> /\ AllDigits(trace)) => input_str = SuppressZeros(trace)

\* Clear, Digit(0), Digit(0), Digit(7) displays "7".
C4_Witness == trace = <<"0", "0", "7">> /\ input_str = <<"7">>

\* C5: a DecimalPoint applied while a number that already holds a point is
\* being typed changes nothing of the engine state; every DecimalPoint leaves
\* such a state, so that a second one in a row is without effect; and
\* Clear, Digit(1), DecimalPoint, DecimalPoint, Digit(5) displays "1.5".
C5_SecondDecimalIgnored ==
    [][/\ (Applied(".") /\ ~resetInput /\ Contains(input_str, "."))
            => UNCHANGED engine
       /\ Applied(".") => (~resetInput' /\ Contains(input_str', "."))
       /\ trace' = <<"1", ".", ".", "5">> => input_str' = <<"1", ".", "5">>]_vars

\* Clear, Digit(1), DecimalPoint, DecimalPoint displays "1.".
C5_Witness == trace = <<"1", ".", ".">> /\ input_str = <<"1", ".">>

\* C6: a BinaryOp applied while resetInput is true evaluates nothing: the
\* display and the stored operand are unchanged and the new operator is the
\* pending one.
C6_OperatorReplaced ==
    [][\A op \in OperatorKeys :
          (Applied(op) /\ resetInput) =>
              /\ input_str' = input_str
              /\ storedValue' = storedValue
              /\ currentOp' = op
              /\ resetInput']_vars

\* Digit(1), BinaryOp('+'), BinaryOp('-'): '-' is pending, 1 is displayed.
C6_Witness ==
    trace = <<"1", "+", "-">> /\ currentOp = "-" /\ input_str = <<"1">>

\* C7: Backspace on a buffer of length 1 or on an error sentinel yields "0";
\* on any other buffer it removes exactly the last character.
C7_BackspaceYields ==
    [][Applied(BackspaceKey) =>
          input_str' = IF Len(input_str) = 1 \/ IsSentinel(input_str)
                       THEN <<"0">>
                       ELSE SubSeq(input_str, 1, Len(input_str) - 1)]_vars

Min(m, n) == IF m < n THEN m ELSE n

\* C9: the history log never holds more than 10 entries, and holds exactly
\* 10 once 11 entries have been added to an empty log.
C9_HistoryCapped ==
    /\ Len(history) <= maxHistory
    /\ Len(appended) = maxHistory + 1 => Len(history) = maxHistory

\* 11 entries were added and 10 are held.
C9_Witness == Len(appended) = maxHistory + 1 /\ Len(history) = maxHistory

\* C10: after n additions since the last clear (or creation) the log holds
\* exactly the min(n, 10) entries added last, unmodified, the most recent
\* first; so the entry evicted is the oldest, and clear leaves the log empty.
C10_MostRecentFirst ==
    /\ Len(history) = Min(Len(appended), maxHistory)
    /\ \A i \in 1..Len(history) : history[i] = appended[Len(appended) + 1 - i]

\* An entry has been evicted, and the two kinds of entry are both held.
C10_Witness ==
    /\ Len(appended) > maxHistory
    /\ history[1] # history[maxHistory]
    /\ history[1] # appended[1]

\* Equals evaluates: an operator is pending.
Evaluates == currentOp # NoOp

\* The pending operation on the display's operand is a division by zero.
EvaluatesToError == DivisionError(currentOp, stodOrZero(input_str))

\* "storedOperand pendingOp rightOperand" of the operation Equals evaluates.
ExpressionShown ==
    format_double(storedValue) \o <<" ", currentOp, " ">> \o input_str

\* C11: an Equals that evaluates successfully adds exactly one history entry,
\* at the front, whose expression is "storedOperand pendingOp rightOperand"
\* and whose result is the formatted result on the display; an Equals that
\* ends in an error sentinel adds none.
C11_EqualsAppendsHistory ==
    [][Applied("=") =>
          /\ (Evaluates /\ EvaluatesToError) => history' = history
          /\ (Evaluates /\ ~EvaluatesToError) =>
                /\ Len(history') = Len(history) + 1
                /\ history'[1] = [expression |-> ExpressionShown,
                                  result |-> input_str']
                /\ Tail(history') = history]_vars

\* C12: recall() returns the value of the last store (0 at creation or after
\* clear) plus the sum of the values added and minus the sum of the values
\* subtracted since then; after clear() recall() is 0 and hasMemory() false.
C12_RecallIsStoredPlusDelta ==
    /\ recall(memory) = DblOfInt(stored + added - subtracted)
    /\ (stored = 0 /\ added = 0 /\ subtracted = 0) =>
          (recall(memory) = Zero /\ ~hasMemory(memory))

\* store(7), add(3), subtract(2): recall() is 8.
C12_Witness ==
    /\ stored = 7 /\ added = 3 /\ subtracted = 2 /\ memOps = 3
    /\ recall(memory) = DblOfNat(8)

\* C13: after any sequence of memory operations hasMemory() is true exactly
\* when the value recall() returns, the last store plus the additions minus
\* the subtractions, differs from 0; store(v) then subtract(v), and store(0),
\* leave it false.
C13_HasMemoryIffNonZero ==
    /\ hasMemory(memory) <=> (stored + added - subtracted # 0)
    /\ hasMemory(memory) <=> (recall(memory) # Zero)
    /\ (added = 0 /\ subtracted = stored) => ~hasMemory(memory)

\* store(-3) then subtract(-3): the cell holds 0 and hasMemory() is false.
C13_Witness ==
    /\ stored = 0 - 3 /\ subtracted = 0 - 3 /\ added = 0 /\ memOps = 2
    /\ ~hasMemory(memory)

\* The engine state at the start of a session.
EngineInitial ==
    /\ input_str = <<"0">>
    /\ storedValue = Zero
    /\ currentOp = NoOp
    /\ resetInput = TRUE

\* C14: from every reachable engine state Clear restores the initial engine
\* state (buffer "0", stored operand 0, no pending operator, awaiting a new
\* entry) and leaves the memory cell and the history log unchanged.
C14_ClearRestoresInitial ==
    [][cleared' => (EngineInitial' /\ UNCHANGED <<memory, history>>)]_vars

\* Clear has been applied in a session whose log and cell are in use.
C14_Witness ==
    /\ cleared /\ EngineInitial
    /\ Len(history) = 1 /\ hasMemory(memory)

\* C15: for every operator and all operands a, b the string safeCalculate
\* returns for a, b, op equals the display the engine's Equals path produces
\* for Clear, a, op, b, Equals, in the success case and in the division by
\* zero case.
C15_SameFormatting ==
    (script.kind = "binary" /\ pos = Len(script.toks)) =>
        input_str = safeCalculate(DblOfNat(script.a), DblOfNat(script.b),
                                  script.op1)

\* The characters of str after an optional sign.
Unsigned(str) ==
    IF str # <<>> /\ str[1] \in {"-", "+"} THEN Tail(str) ELSE str

\* Digits with at most one decimal point among them, and at least one digit.
DigitsAndPoint(str) ==
    /\ \A i \in 1..Len(str) : IsDigit(str[i]) \/ str[i] = "."
    /\ \E i \in 1..Len(str) : IsDigit(str[i])
    /\ \A i, j \in 1..Len(str) : (str[i] = "." /\ str[j] = ".") => i = j

\* An optional sign, digits, at most one decimal point, no exponent.
ValidNumeral(str) == DigitsAndPoint(Unsigned(str))

\* C16: in every reachable engine state the display buffer is a syntactically
\* valid decimal numeral or one of the sentinels "Error", "Error: Div by 0".
C16_DisplayWellFormed == ValidNumeral(input_str) \/ IsSentinel(input_str)

\* A Digit or DecimalPoint token that starts an entry replaces the buffer
\* with the digit, or with "0." for a decimal point.
FreshEntry(c) == IF c = "." THEN <<"0", ".">> ELSE <<c>>

\* What holds of resetInput after BinaryOp, Clear, Digit and DecimalPoint.
FlagAfterOtherTokens ==
    /\ \A op \in OperatorKeys : Applied(op) => resetInput'
    /\ cleared' => resetInput'
    /\ \A c \in NumberKeys :
          Applied(c) =>
              /\ ~resetInput'
              /\ resetInput => input_str' = FreshEntry(c)

\* C17, as claimed: awaitingNewEntry is true immediately after every
\* BinaryOp, every Equals and every Clear token, whatever the state; the
\* first Digit or DecimalPoint typed afterwards makes it false and replaces
\* the buffer.
C17_AwaitingAfterEveryEquals ==
    [][FlagAfterOtherTokens /\ (Applied("=") => resetInput')]_vars

\* C17, amended: awaitingNewEntry is true immediately after every BinaryOp
\* and every Clear token, and after every Equals token applied while an
\* operator is pending; an Equals token with no operator pending leaves the
\* flag as it was; the first Digit or DecimalPoint typed while the flag is
\* true makes it false and replaces the buffer.
C17_AwaitingAfterEvaluation ==
    [][/\ FlagAfterOtherTokens
       /\ (Applied("=") /\ currentOp # NoOp) => resetInput'
       /\ (Applied("=") /\ currentOp = NoOp) => resetInput' = resetInput]_vars

\* Digit(2), BinaryOp('+'), Digit(3): the 3 has replaced the 2.
C17_Witness ==
    trace = <<"2", "+", "3">> /\ input_str = <<"3">> /\ ~resetInput

\* C18: when Equals evaluates a pending division whose right operand is 0,
\* the stored operand is reset to 0, the pending operator is cleared and
\* awaitingNewEntry is true; and after every Equals no operator is pending.
C18_EqualsClearsPending ==
    [][Applied("=") =>
          /\ currentOp' = NoOp
          /\ EvaluatesToError =>
                (storedValue' = Zero /\ currentOp' = NoOp /\ resetInput')]_vars

\* Digit(5), BinaryOp('/'), Digit(0), Equals: the stored 5 is reset to 0.
C18_Witness ==
    /\ trace = <<"5", "/", "0", "=">>
    /\ storedValue = Zero /\ currentOp = NoOp /\ resetInput

\* The number of tokens of a script up to and including its first Equals.
UpToEquals(sc) == 1 + Len(Typed(sc.a)) + 1 + Len(Typed(sc.b)) + 1

\* The first operation of the script has a numeric result.
FirstDefined(sc) == ~DivisionError(sc.op1, DblOfNat(sc.b))

\* The second operation of the script has a numeric result.
SecondDefined(sc) == ~DivisionError(sc.op2, DblOfNat(sc.c))

\* C19: after a successful Equals the display shows the formatted result and
\* the stored operand is the result; an immediately following BinaryOp(op),
\* operand c, Equals displays result op c; if a number d is typed before the
\* BinaryOp, d is the left operand and d op c is displayed.
C19_ResultCarriedOver ==
    /\ (script.kind \in {"carry", "retype"} /\ FirstDefined(script)
        /\ pos = UpToEquals(script)) =>
          /\ input_str = format_double(FirstResult(script))
          /\ storedValue = FirstResult(script)
          /\ currentOp = NoOp
    /\ (script.kind = "carry" /\ FirstDefined(script) /\ SecondDefined(script)
        /\ pos = Len(script.toks)) =>
          input_str = format_double(Arith(script.op2, FirstResult(script),
                                          DblOfNat(script.c)))
    /\ (script.kind = "retype" /\ SecondDefined(script)
        /\ pos = Len(script.toks)) =>
          input_str = format_double(Arith(script.op2, DblOfNat(script.d),
                                          DblOfNat(script.c)))

\* Clear, 2, '+', 3, Equals, '*', 4, Equals displays "20".
C19_Witness ==
    /\ script = CarryScript(2, "+", 3, "*", 4)
    /\ pos = Len(script.toks)
    /\ input_str = <<"2", "0">>

\* C20: Equals applied when no operator is pending changes nothing: display,
\* stored operand, pending operator and awaitingNewEntry keep their values;
\* so Clear, Digit(5), Equals, Digit(3) displays "53", and a second Equals
\* in a row changes nothing more.
C20_EqualsWithoutPending ==
    [][/\ (Applied("=") /\ currentOp = NoOp) => UNCHANGED engine
       /\ (Applied("=") /\ trace # <<>> /\ trace[Len(trace)] = "=") =>
              UNCHANGED engine
       /\ trace' = <<"5", "=", "3">> => input_str' = <<"5", "3">>]_vars

\* Clear, Digit(5), Equals, Digit(3) displays "53".
C20_Witness == trace = <<"5", "=", "3">> /\ input_str = <<"5", "3">>

\* C21: Digit and DecimalPoint tokens never change the stored operand or the
\* pending operator, in any reachable state (nor do they end the process):
\* they change only the display buffer and awaitingNewEntry.
C21_NumberKeysFrame ==
    [][\A c \in NumberKeys :
          Applied(c) => UNCHANGED <<storedValue, currentOp, aborted>>]_vars

\* Digit(5), BinaryOp('+'), Digit(3): 5 is still stored and '+' pending.
C21_Witness ==
    /\ trace = <<"5", "+", "3">>
    /\ storedValue = DblOfNat(5) /\ currentOp = "+" /\ input_str = <<"3">>

\* The number of decimal points of str.
RECURSIVE PointsOf(_)
PointsOf(str) ==
    IF str = <<>> THEN 0
    ELSE (IF str[1] = "." THEN 1 ELSE 0) + PointsOf(Tail(str))

\* C22: in every reachable engine state the display buffer contains at most
\* one decimal point and is not the empty string.
C22_OnePointNeverEmpty == PointsOf(input_str) <= 1 /\ input_str # <<>>

\* Digit(2), DecimalPoint, Digit(5), DecimalPoint: one point is displayed.
C22_Witness ==
    trace = <<"2", ".", "5", ".">> /\ input_str = <<"2", ".", "5">>

====
